---- MODULE Spec2Model ----
(***************************************************************************)
(* MySqlDialect (src/dialect/mysql.rs): the dialect hooks parse_infix,     *)
(* parse_statement and parse_plain_option, run against the host parser's   *)
(* token cursor.  A state is a token stream, the cursor, and the outcome   *)
(* of the last hook call.  Whitespace tokens are left out of the stream:   *)
(* every host primitive skips them.                                        *)
(***************************************************************************)
EXTENDS Integers, Sequences, FiniteSets, TLC

VARIABLES tokens, written, index, entry, hook, result

vars == <<tokens, written, index, entry, hook, result>>

\* ---- bounds ----
MaxLen == 3
MaxTail == 2
MaxList == 2
MaxEntries == 2

\* ---- tokens ----
W(v) == [type |-> "Word", value |-> v, quote |-> ""]
QW(v) == [type |-> "Word", value |-> v, quote |-> "bq"]
N(v) == [type |-> "Number", value |-> v, quote |-> ""]
S(v) == [type |-> "SingleQuotedString", value |-> v, quote |-> ""]
Eq == [type |-> "Eq", value |-> "=", quote |-> ""]
Comma == [type |-> "Comma", value |-> ",", quote |-> ""]
LParen == [type |-> "LParen", value |-> "(", quote |-> ""]
RParen == [type |-> "RParen", value |-> ")", quote |-> ""]
EOF == [type |-> "EOF", value |-> "EOF", quote |-> ""]

\* str::to_uppercase on the words and strings the model uses.
to_uppercase(s) ==
    CASE s = "default" -> "DEFAULT"
      [] s = "Default" -> "DEFAULT"
      [] s = "disk" -> "DISK"
      [] s = "Memory" -> "MEMORY"
      [] s = "zlib" -> "ZLIB"
      [] s = "Lz4" -> "LZ4"
      [] s = "none" -> "NONE"
      [] s = "first" -> "FIRST"
      [] s = "Last" -> "LAST"
      [] s = "no" -> "NO"
      [] s = "read" -> "READ"
      [] s = "div" -> "DIV"
      [] s = "t1" -> "T1"
      [] s = "t2" -> "T2"
      [] s = "a" -> "A"
      [] s = "b" -> "B"
      [] s = "x" -> "X"
      [] s = "ts" -> "TS"
      [] s = "gzip" -> "GZIP"
      [] s = "/d" -> "/D"
      [] OTHER -> s

\* The option keywords parse_plain_option recognises, in source order.
OPTION_KEYWORDS ==
    <<"INSERT_METHOD", "KEY_BLOCK_SIZE", "ROW_FORMAT", "DATA", "INDEX",
      "PACK_KEYS", "STATS_AUTO_RECALC", "STATS_PERSISTENT",
      "STATS_SAMPLE_PAGES", "DELAY_KEY_WRITE", "COMPRESSION", "ENCRYPTION",
      "MAX_ROWS", "MIN_ROWS", "AUTOEXTEND_SIZE", "AVG_ROW_LENGTH", "CHECKSUM",
      "CONNECTION", "ENGINE_ATTRIBUTE", "PASSWORD",
      "SECONDARY_ENGINE_ATTRIBUTE", "START", "TABLESPACE", "UNION">>

OptionKeywordSet == {OPTION_KEYWORDS[k] : k \in DOMAIN OPTION_KEYWORDS}

\* The part of the keyword table the hooks and the model's inputs touch.
ALL_KEYWORDS ==
    OptionKeywordSet \cup
    {"DIRECTORY", "TRANSACTION", "STORAGE", "DISK", "MEMORY", "DEFAULT",
     "NO", "FIRST", "LAST", "NONE", "ENGINE", "LOCK", "UNLOCK", "TABLES",
     "READ", "WRITE", "LOW_PRIORITY", "LOCAL", "AS", "DIV"}

\* Word::keyword, as the tokenizer sets it: quoted words carry no keyword.
KeywordTag(tok, upper) ==
    IF tok.type = "Word" /\ tok.quote = "" /\ upper \in ALL_KEYWORDS
    THEN upper
    ELSE "NoKeyword"

KeywordOf(tok) == KeywordTag(tok, to_uppercase(tok.value))

\* Display of a token, as it appears in "found: ..." messages.
TokenText(tok) ==
    IF tok.type = "SingleQuotedString" THEN "'" \o tok.value \o "'"
    ELSE IF tok.type = "Word" /\ tok.quote # "" THEN tok.quote \o tok.value \o tok.quote
    ELSE tok.value

\* ---- host parser primitives ----
\* index is the 1-based position of the next token to read.
peek_token(toks, i) == IF i >= 1 /\ i <= Len(toks) THEN toks[i] ELSE EOF

\* next_token advances the cursor even at end of stream.
next_token(toks, i) == [index |-> i + 1, token |-> peek_token(toks, i)]

consume_token(toks, i, type) ==
    IF peek_token(toks, i).type = type
    THEN [index |-> i + 1, ok |-> TRUE]
    ELSE [index |-> i, ok |-> FALSE]

parse_keyword(toks, i, kw) ==
    IF KeywordOf(peek_token(toks, i)) = kw
    THEN [index |-> i + 1, ok |-> TRUE]
    ELSE [index |-> i, ok |-> FALSE]

RECURSIVE parse_keywords_from(_, _, _, _)
keywords_next(toks, kws, k, r) ==
    IF r.ok THEN parse_keywords_from(toks, r.index, kws, k + 1) ELSE r

\* The keywords kws[k..] one after the other; stops at the first mismatch.
parse_keywords_from(toks, i, kws, k) ==
    IF k > Len(kws) THEN [index |-> i, ok |-> TRUE]
    ELSE keywords_next(toks, kws, k, parse_keyword(toks, i, kws[k]))

rewind(i, r) == IF r.ok THEN r ELSE [index |-> i, ok |-> FALSE]

\* parse_keywords restores the cursor when the sequence does not match.
parse_keywords(toks, i, kws) == rewind(i, parse_keywords_from(toks, i, kws, 1))

one_of(i, kws, kw) ==
    IF \E k \in DOMAIN kws : kws[k] = kw
    THEN [index |-> i + 1, keyword |-> kw]
    ELSE [index |-> i, keyword |-> "NoKeyword"]

parse_one_of_keywords(toks, i, kws) == one_of(i, kws, KeywordOf(peek_token(toks, i)))

ParserError(msg) == [kind |-> "Err", msg |-> msg]

\* parser.expected(what, found)
expected(what, found) ==
    ParserError(<<"Expected:", what, "found:", TokenText(found)>>)

Ok(v) == [kind |-> "Ok", v |-> v]

IdentNew(value) == [value |-> value, quote_style |-> ""]
IdentWithQuote(q, value) == [value |-> value, quote_style |-> q]

identifier_of(t) ==
    IF t.token.type = "Word"
    THEN [index |-> t.index, res |-> Ok(IdentWithQuote(t.token.quote, t.token.value))]
    ELSE IF t.token.type = "SingleQuotedString"
    THEN [index |-> t.index, res |-> Ok(IdentWithQuote("'", t.token.value))]
    ELSE [index |-> t.index, res |-> expected("identifier", t.token)]

parse_identifier(toks, i) == identifier_of(next_token(toks, i))

NoAlias == [value |-> "", quote_style |-> "none"]

alias_of(as, t, reserved_kwds) ==
    IF t.token.type = "Word" /\ (as.ok \/ KeywordOf(t.token) \notin reserved_kwds)
    THEN [index |-> t.index, res |-> Ok(IdentWithQuote(t.token.quote, t.token.value))]
    ELSE IF t.token.type = "SingleQuotedString"
    THEN [index |-> t.index, res |-> Ok(IdentWithQuote("'", t.token.value))]
    ELSE IF as.ok
    THEN [index |-> t.index, res |-> expected("an identifier after AS", t.token)]
    ELSE [index |-> t.index - 1, res |-> Ok(NoAlias)]

alias_after_as(toks, as, reserved_kwds) ==
    alias_of(as, next_token(toks, as.index), reserved_kwds)

\* An optional AS, then a word that is not reserved (any word after AS) or a
\* quoted string; otherwise no alias and nothing consumed.
parse_optional_alias(toks, i, reserved_kwds) ==
    alias_after_as(toks, parse_keyword(toks, i, "AS"), reserved_kwds)

expect_token(toks, i, type, text) ==
    IF peek_token(toks, i).type = type
    THEN [index |-> i + 1, res |-> Ok(TRUE)]
    ELSE [index |-> i, res |-> expected(text, peek_token(toks, i))]

\* ---- LOCK TABLES / UNLOCK TABLES ----
Read(local) == [lock |-> "Read", flag |-> local]
Write(low_priority) == [lock |-> "Write", flag |-> low_priority]

LOCK_RESERVED == {"READ", "WRITE", "LOW_PRIORITY"}

\* Variant: LOCAL after READ is consumed but not recorded.
read_local_dropped(local) == [index |-> local.index, res |-> Ok(Read(FALSE))]

\* READ was consumed; local is the outcome of parse_keyword(LOCAL).
read_local(local) ==
    IF local.ok
    THEN [index |-> local.index, res |-> Ok(Read(TRUE))]
    ELSE [index |-> local.index, res |-> Ok(Read(FALSE))]

lock_type_low_priority(toks, i, low) ==
    IF low.ok
    THEN [index |-> low.index, res |-> Ok(Write(TRUE))]
    ELSE [index |-> i,
          res |-> expected("an lock type in LOCK TABLES", peek_token(toks, i))]

lock_type_write(toks, i, write) ==
    IF write.ok
    THEN [index |-> write.index, res |-> Ok(Write(FALSE))]
    ELSE lock_type_low_priority(toks, i,
             parse_keywords(toks, i, <<"LOW_PRIORITY", "WRITE">>))

lock_type_read(toks, i, read) ==
    IF read.ok
    THEN read_local(parse_keyword(toks, read.index, "LOCAL"))
    ELSE lock_type_write(toks, i, parse_keyword(toks, i, "WRITE"))

\* READ [LOCAL] | [LOW_PRIORITY] WRITE
parse_lock_tables_type(toks, i) == lock_type_read(toks, i, parse_keyword(toks, i, "READ"))

LockTable(table, alias, lock_type) ==
    [table |-> table, alias |-> alias, lock_type |-> lock_type]

\* Variant: a missing lock type defaults to READ instead of failing.
lock_table_lock_optional(table, alias, lock_type) ==
    IF lock_type.res.kind = "Err"
    THEN [index |-> alias.index,
          res |-> Ok(LockTable(table.res.v, alias.res.v, Read(FALSE)))]
    ELSE [index |-> lock_type.index,
          res |-> Ok(LockTable(table.res.v, alias.res.v, lock_type.res.v))]

lock_table_lock_type(table, alias, lock_type) ==
    IF lock_type.res.kind = "Err" THEN lock_type
    ELSE [index |-> lock_type.index,
          res |-> Ok(LockTable(table.res.v, alias.res.v, lock_type.res.v))]

lock_table_alias(toks, table, alias) ==
    IF alias.res.kind = "Err" THEN alias
    ELSE lock_table_lock_type(table, alias, parse_lock_tables_type(toks, alias.index))

lock_table_table(toks, table) ==
    IF table.res.kind = "Err" THEN table
    ELSE lock_table_alias(toks, table,
             parse_optional_alias(toks, table.index, LOCK_RESERVED))

\* tbl_name [[AS] alias] lock_type
parse_lock_table(toks, i) == lock_table_table(toks, parse_identifier(toks, i))

\* The element parser handed to parse_comma_separated.
call(f, toks, i) ==
    IF f = "parse_lock_table" THEN parse_lock_table(toks, i)
    ELSE parse_identifier(toks, i)

RECURSIVE parse_comma_separated_loop(_, _, _, _)
comma_separated_more(toks, f, values, c) ==
    IF ~c.ok THEN [index |-> c.index, res |-> Ok(values)]
    ELSE parse_comma_separated_loop(toks, c.index, f, values)

comma_separated_item(toks, f, values, r) ==
    IF r.res.kind = "Err" THEN r
    ELSE comma_separated_more(toks, f, Append(values, r.res.v),
                              consume_token(toks, r.index, "Comma"))

parse_comma_separated_loop(toks, i, f, values) ==
    comma_separated_item(toks, f, values, call(f, toks, i))

\* One or more elements; a comma must be followed by another element.
parse_comma_separated(toks, i, f) == parse_comma_separated_loop(toks, i, f, <<>>)

parse_comma_separated0(toks, i, f, end_type) ==
    IF peek_token(toks, i).type = end_type
    THEN [index |-> i, res |-> Ok(<<>>)]
    ELSE parse_comma_separated(toks, i, f)

LockTables(tables) == [stmt |-> "LockTables", tables |-> tables]
UnlockTables == [stmt |-> "UnlockTables", tables |-> <<>>]

lock_tables_of(tables) ==
    IF tables.res.kind = "Err" THEN tables
    ELSE [index |-> tables.index, res |-> Ok(LockTables(tables.res.v))]

parse_lock_tables(toks, i) ==
    lock_tables_of(parse_comma_separated(toks, i, "parse_lock_table"))

\* Variant: UNLOCK TABLES takes one more token.
parse_unlock_tables_greedy(toks, i) == [index |-> i + 1, res |-> Ok(UnlockTables)]

parse_unlock_tables(toks, i) == [index |-> i, res |-> Ok(UnlockTables)]

None == [kind |-> "None"]
Some(r) ==
    IF r.kind = "Ok" THEN [kind |-> "SomeOk", node |-> r.v]
    ELSE [kind |-> "SomeErr", msg |-> r.msg]

statement_of(r) == [index |-> r.index, res |-> Some(r.res)]

\* Variant: the cursor stays where the keyword match stopped.
statement_unlock_no_rewind(toks, i, unlock) ==
    IF unlock.ok
    THEN statement_of(parse_unlock_tables(toks, unlock.index))
    ELSE [index |-> unlock.index, res |-> None]

statement_unlock(toks, i, unlock) ==
    IF unlock.ok
    THEN statement_of(parse_unlock_tables(toks, unlock.index))
    ELSE [index |-> i, res |-> None]

\* Variant: LOCK / UNLOCK is consumed before TABLES is looked at, and not
\* given back.
statement_lock_no_rewind(toks, i, lock) ==
    IF lock.ok
    THEN statement_of(parse_lock_tables(toks, lock.index))
    ELSE IF lock.index > i THEN [index |-> lock.index, res |-> None]
    ELSE statement_unlock_no_rewind(toks, i,
             parse_keywords_from(toks, i, <<"UNLOCK", "TABLES">>, 1))

statement_lock(toks, i, lock) ==
    IF lock.ok
    THEN statement_of(parse_lock_tables(toks, lock.index))
    ELSE statement_unlock(toks, i, parse_keywords(toks, i, <<"UNLOCK", "TABLES">>))

parse_statement_no_rewind(toks, i) ==
    statement_lock_no_rewind(toks, i, parse_keywords_from(toks, i, <<"LOCK", "TABLES">>, 1))

parse_statement(toks, i) ==
    statement_lock(toks, i, parse_keywords(toks, i, <<"LOCK", "TABLES">>))

\* ---- DIV ----
Identifier(ident) == [expr |-> "Identifier", ident |-> ident]
Number(n) == [expr |-> "Number", s |-> n]
SingleQuotedString(str) == [expr |-> "SingleQuotedString", s |-> str]
BinaryOp(left, op, right) == [expr |-> "BinaryOp", left |-> left, op |-> op, right |-> right]

Panic == [kind |-> "Panic"]

RECURSIVE parse_expr(_, _)

\* Result::unwrap on the right operand: an Err aborts the call.
infix_right(expr, right) ==
    IF right.res.kind = "Ok"
    THEN [index |-> right.index,
          res |-> [kind |-> "SomeOk",
                   node |-> BinaryOp(expr, "MyIntegerDivide", right.res.v)]]
    ELSE [index |-> right.index, res |-> Panic]

infix_div(toks, i, expr, div) ==
    IF div.ok
    THEN infix_right(expr, parse_expr(toks, div.index))
    ELSE [index |-> i, res |-> None]

parse_infix(toks, i, expr) == infix_div(toks, i, expr, parse_keyword(toks, i, "DIV"))

operand(token) ==
    IF token.type = "Word" THEN Identifier(IdentWithQuote(token.quote, token.value))
    ELSE IF token.type = "Number" THEN Number(token.value)
    ELSE SingleQuotedString(token.value)

expr_infix(t, left, infix) ==
    IF infix.res.kind = "None" THEN [index |-> t.index, res |-> Ok(left)]
    ELSE IF infix.res.kind = "SomeOk"
    THEN [index |-> infix.index, res |-> Ok(infix.res.node)]
    ELSE infix

expr_prefix(toks, t) ==
    IF t.token.type \notin {"Word", "Number", "SingleQuotedString"}
    THEN [index |-> t.index, res |-> expected("an expression", t.token)]
    ELSE expr_infix(t, operand(t.token), parse_infix(toks, t.index, operand(t.token)))

\* The host's expression grammar, reduced to operands joined by the
\* dialect's infix operator.
parse_expr(toks, i) == expr_prefix(toks, next_token(toks, i))

\* ---- table options ----
COMPRESSION_OPTS == {"ZLIB", "LZ4", "NONE"}
INSERT_METHODS_OPTS == {"NO", "FIRST", "LAST"}

KeyValue(key, value) == [option |-> "KeyValue", key |-> IdentNew(key), value |-> value]
SqlOptionIdent(name) == [option |-> "Ident", ident |-> IdentNew(name)]
TableSpace(name, storage) == [option |-> "TableSpace", name |-> name, storage |-> storage]
Union(tables) == [option |-> "Union", tables |-> tables]

OkNone == [kind |-> "OkNone"]
OkSome(node) == [kind |-> "OkSome", node |-> node]

\* Arms whose only accepted value is a number.
NUMBER_ARMS ==
    {"KEY_BLOCK_SIZE", "PACK_KEYS", "STATS_AUTO_RECALC", "STATS_PERSISTENT",
     "STATS_SAMPLE_PAGES", "DELAY_KEY_WRITE", "MAX_ROWS", "MIN_ROWS",
     "AUTOEXTEND_SIZE", "AVG_ROW_LENGTH", "CHECKSUM"}

\* Arms that take any single-quoted string.
STRING_ARMS ==
    {"ENCRYPTION", "CONNECTION", "ENGINE_ATTRIBUTE", "PASSWORD",
     "SECONDARY_ENGINE_ATTRIBUTE"}

\* Arms with the guard s.value.to_uppercase() == "DEFAULT".
DEFAULT_ARMS == {"PACK_KEYS", "STATS_AUTO_RECALC", "STATS_PERSISTENT"}

\* Variant: the comparison with "DEFAULT" without to_uppercase.
is_default_case_sensitive(w) == w.value = "DEFAULT"

is_default(w) == to_uppercase(w.value) = "DEFAULT"

directory_path(key, next) ==
    IF next.token.type = "SingleQuotedString"
    THEN [index |-> next.index,
          res |-> OkSome(KeyValue(key, SingleQuotedString(next.token.value)))]
    ELSE [index |-> next.index,
          res |-> expected("Token::SingleQuotedString", next.token)]

\* {DATA | INDEX} DIRECTORY [=] 'absolute path to directory'
directory_arm(toks, i, key) ==
    directory_path(key, next_token(toks, consume_token(toks, i, "Eq").index))

storage_type(name, storage_token, w) ==
    IF storage_token.token.type # "Word"
    THEN [index |-> storage_token.index,
          res |-> expected("Token::Word", storage_token.token)]
    ELSE IF w = "DISK"
    THEN [index |-> storage_token.index, res |-> OkSome(TableSpace(name, "Disk"))]
    ELSE IF w = "MEMORY"
    THEN [index |-> storage_token.index, res |-> OkSome(TableSpace(name, "Memory"))]
    ELSE [index |-> storage_token.index,
          res |-> expected("Storage type (DISK or MEMORY)", storage_token.token)]

storage_token_type(name, storage_token) ==
    storage_type(name, storage_token, to_uppercase(storage_token.token.value))

\* Variant: no optional = after STORAGE.
tablespace_storage_no_eq(toks, i, name, storage) ==
    IF ~storage.ok
    THEN [index |-> i, res |-> OkSome(TableSpace(name, "None"))]
    ELSE storage_token_type(name, next_token(toks, storage.index))

tablespace_storage(toks, i, name, storage) ==
    IF ~storage.ok
    THEN [index |-> i, res |-> OkSome(TableSpace(name, "None"))]
    ELSE storage_token_type(name,
             next_token(toks, consume_token(toks, storage.index, "Eq").index))

\* TABLESPACE tablespace_name [STORAGE [=] {DISK | MEMORY}]
tablespace_arm(toks, i, name) ==
    tablespace_storage(toks, i, name, parse_keyword(toks, i, "STORAGE"))

union_close(tables, close) ==
    IF close.res.kind = "Err" THEN close
    ELSE [index |-> close.index, res |-> OkSome(Union(tables.res.v))]

\* Variant: the right parenthesis is taken if present, not required.
union_tables_open(toks, tables) ==
    IF tables.res.kind = "Err" THEN tables
    ELSE [index |-> consume_token(toks, tables.index, "RParen").index,
          res |-> OkSome(Union(tables.res.v))]

union_tables(toks, tables) ==
    IF tables.res.kind = "Err" THEN tables
    ELSE union_close(tables, expect_token(toks, tables.index, "RParen", ")"))

\* UNION [=] (tbl_name[,tbl_name]...)
union_arm(toks, i) ==
    union_tables(toks, parse_comma_separated0(toks, i, "parse_identifier", "RParen"))

\* Variant: a value of the wrong shape makes the hook decline.
catch_all_declines(keyword) == [kind |-> "OkNone"]

catch_all(keyword) ==
    ParserError(<<"Table option", keyword, "does not have a matching value">>)

\* match (keyword, value.token), value being the token after the optional =.
option_value(toks, keyword, next) ==
    LET value == next.token
        j == next.index
    IN IF keyword \in NUMBER_ARMS /\ value.type = "Number"
       THEN [index |-> j, res |-> OkSome(KeyValue(keyword, Number(value.value)))]
       ELSE IF keyword = "ROW_FORMAT" /\ value.type = "Word"
       THEN [index |-> j,
             res |-> OkSome(KeyValue("ROW_FORMAT", Identifier(IdentNew(value.value))))]
       ELSE IF keyword = "DATA" /\ value.type = "Word" /\ KeywordOf(value) = "DIRECTORY"
       THEN directory_arm(toks, j, "DATA DIRECTORY")
       ELSE IF keyword = "INDEX" /\ value.type = "Word" /\ KeywordOf(value) = "DIRECTORY"
       THEN directory_arm(toks, j, "INDEX DIRECTORY")
       ELSE IF keyword \in DEFAULT_ARMS /\ value.type = "Word" /\ is_default(value)
       THEN [index |-> j,
             res |-> OkSome(KeyValue(keyword, SingleQuotedString(value.value)))]
       ELSE IF keyword = "COMPRESSION" /\ value.type = "SingleQuotedString"
               /\ to_uppercase(value.value) \in COMPRESSION_OPTS
       THEN [index |-> j,
             res |-> OkSome(KeyValue("COMPRESSION", SingleQuotedString(value.value)))]
       ELSE IF keyword \in STRING_ARMS /\ value.type = "SingleQuotedString"
       THEN [index |-> j,
             res |-> OkSome(KeyValue(keyword, SingleQuotedString(value.value)))]
       ELSE IF keyword = "START" /\ value.type = "Word" /\ KeywordOf(value) = "TRANSACTION"
       THEN [index |-> j, res |-> OkSome(SqlOptionIdent("START TRANSACTION"))]
       ELSE IF keyword = "INSERT_METHOD" /\ value.type = "Word"
               /\ to_uppercase(value.value) \in INSERT_METHODS_OPTS
       THEN [index |-> j,
             res |-> OkSome(KeyValue("INSERT_METHOD", Identifier(IdentNew(value.value))))]
       ELSE IF keyword = "TABLESPACE" /\ value.type \in {"Word", "SingleQuotedString"}
       THEN tablespace_arm(toks, j, value.value)
       ELSE IF keyword = "UNION" /\ value.type = "LParen"
       THEN union_arm(toks, j)
       ELSE [index |-> j, res |-> catch_all(keyword)]

option_keyword(toks, i, kw) ==
    IF kw.keyword = "NoKeyword" THEN [index |-> i, res |-> OkNone]
    ELSE option_value(toks, kw.keyword,
             next_token(toks, consume_token(toks, kw.index, "Eq").index))

parse_plain_option(toks, i) ==
    option_keyword(toks, i, parse_one_of_keywords(toks, i, OPTION_KEYWORDS))

\* ---- rendering of the produced nodes, read back as tokens ----
\* The text of an unquoted identifier, tokenized again.
Tokenize(text) ==
    CASE text = "START TRANSACTION" -> <<W("START"), W("TRANSACTION")>>
      [] text = "DATA DIRECTORY" -> <<W("DATA"), W("DIRECTORY")>>
      [] text = "INDEX DIRECTORY" -> <<W("INDEX"), W("DIRECTORY")>>
      [] OTHER -> <<W(text)>>

DisplayIdent(ident) ==
    IF ident.quote_style = "'" THEN <<S(ident.value)>>
    ELSE IF ident.quote_style = "bq" THEN <<QW(ident.value)>>
    ELSE Tokenize(ident.value)

DisplayExpr(e) ==
    IF e.expr = "Number" THEN <<N(e.s)>>
    ELSE IF e.expr = "SingleQuotedString" THEN <<S(e.s)>>
    ELSE DisplayIdent(e.ident)

RECURSIVE display_comma_separated(_, _)
display_comma_separated(items, k) ==
    IF k > Len(items) THEN <<>>
    ELSE (IF k > 1 THEN <<Comma>> ELSE <<>>) \o items[k]
         \o display_comma_separated(items, k + 1)

DisplaySqlOption(o) ==
    IF o.option = "KeyValue" THEN DisplayIdent(o.key) \o <<Eq>> \o DisplayExpr(o.value)
    ELSE IF o.option = "Ident" THEN DisplayIdent(o.ident)
    ELSE IF o.option = "TableSpace"
    THEN <<W("TABLESPACE")>> \o Tokenize(o.name)
         \o (IF o.storage = "Disk" THEN <<W("STORAGE"), W("DISK")>>
             ELSE IF o.storage = "Memory" THEN <<W("STORAGE"), W("MEMORY")>>
             ELSE <<>>)
    ELSE <<W("UNION"), Eq, LParen>>
         \o display_comma_separated([k \in DOMAIN o.tables |-> DisplayIdent(o.tables[k])], 1)
         \o <<RParen>>

DisplayLockTableType(t) ==
    IF t.lock = "Read"
    THEN <<W("READ")>> \o (IF t.flag THEN <<W("LOCAL")>> ELSE <<>>)
    ELSE (IF t.flag THEN <<W("LOW_PRIORITY")>> ELSE <<>>) \o <<W("WRITE")>>

DisplayLockTable(t) ==
    DisplayIdent(t.table)
    \o (IF t.alias = NoAlias THEN <<>> ELSE <<W("AS")>> \o DisplayIdent(t.alias))
    \o DisplayLockTableType(t.lock_type)

DisplayStatement(st) ==
    IF st.stmt = "UnlockTables" THEN <<W("UNLOCK"), W("TABLES")>>
    ELSE <<W("LOCK"), W("TABLES")>>
         \o display_comma_separated([k \in DOMAIN st.tables |-> DisplayLockTable(st.tables[k])], 1)

\* ---- token streams the hooks are run on ----
SeqsUpTo(A, n) == UNION {[1..k -> A] : k \in 0..n}
Prefix(s, k) == SubSeq(s, 1, k)
OptEq == {<<>>, <<Eq>>}

GeneralTokens ==
    {W("LOCK"), W("UNLOCK"), W("TABLES"), W("DIV"), W("div"), W("a"), N("1"),
     W("PACK_KEYS"), W("ENGINE"), RParen}

GeneralStreams == SeqsUpTo(GeneralTokens, MaxLen)

ValueTokens ==
    {N("1"), W("DEFAULT"), W("Default"), W("DIRECTORY"), W("TRANSACTION"),
     W("STORAGE"), W("first"), W("x"), QW("default"), S("zlib"), S("gzip"),
     LParen, Eq}

KeywordStreams ==
    {<<W(k)>> \o t : k \in OptionKeywordSet \cup {"ENGINE"}, t \in SeqsUpTo(ValueTokens, MaxTail)}

PathTokens == {S("/d"), W("x"), N("1"), Eq}

DirectoryStreams ==
    {<<W(k)>> \o e1 \o <<W("DIRECTORY")>> \o e2 \o p :
        k \in {"DATA", "INDEX"}, e1 \in OptEq, e2 \in OptEq,
        p \in SeqsUpTo(PathTokens, 1)}

StorageTokens == {W("disk"), W("MEMORY"), W("Memory"), W("x"), S("disk"), N("1"), Eq}

TablespaceStreams ==
    {<<W("TABLESPACE")>> \o e1 \o <<n>> \o r :
        e1 \in OptEq, n \in {W("ts"), S("ts"), W("STORAGE")},
        r \in {<<>>, <<W("x")>>, <<Eq>>}
              \cup {<<W("STORAGE")>> \o e2 \o v : e2 \in OptEq, v \in SeqsUpTo(StorageTokens, 1)}}

RECURSIVE IdentLists(_)
IdentLists(n) ==
    IF n = 0 THEN {<<>>}
    ELSE IdentLists(n - 1) \cup
         {l \o <<t>> : l \in {x \in IdentLists(n - 1) : Len(x) = n - 1},
                       t \in {<<W("a")>>, <<W("b")>>, <<S("ts")>>}}

UnionStreams ==
    {<<W("UNION")>> \o e1 \o <<LParen>> \o display_comma_separated(l, 1) \o c :
        e1 \in OptEq, l \in IdentLists(MaxList),
        c \in {<<>>, <<RParen>>, <<RParen, W("x")>>, <<W("x")>>, <<Comma>>,
               <<Comma, RParen>>}}

OptionStreams ==
    KeywordStreams \cup DirectoryStreams \cup TablespaceStreams \cup UnionStreams

\* LOCK TABLES statements as written: per entry an alias style and a lock type.
\* "as_kw": AS followed by a word that is reserved when AS is not written.
AliasStyles == {"none", "bare", "as", "as_kw"}
LockTypes == {Read(FALSE), Read(TRUE), Write(FALSE), Write(TRUE)}
Entries == [alias : AliasStyles, lock_type : LockTypes]

RECURSIVE EntryLists(_)
EntryLists(n) ==
    IF n = 0 THEN {<<>>}
    ELSE EntryLists(n - 1) \cup
         {l \o <<e>> : l \in {x \in EntryLists(n - 1) : Len(x) = n - 1}, e \in Entries}

TableName(k) == IF k % 2 = 1 THEN W("t1") ELSE W("t2")

WrittenEntry(e, k) ==
    <<TableName(k)>>
    \o (IF e.alias = "bare" THEN <<W("a")>>
        ELSE IF e.alias = "as" THEN <<W("AS"), W("a")>>
        ELSE IF e.alias = "as_kw" THEN <<W("AS"), W("READ")>>
        ELSE <<>>)
    \o DisplayLockTableType(e.lock_type)

WrittenLockTables(l) ==
    <<W("LOCK"), W("TABLES")>>
    \o display_comma_separated([k \in DOMAIN l |-> WrittenEntry(l[k], k)], 1)

WellFormedLists == {l \in EntryLists(MaxEntries) : Len(l) >= 1}

\* Truncations of well-formed statements, with or without one more token.
Junk == {<<>>, <<Comma>>, <<W("x")>>, <<W("LOCAL")>>}

Truncations(s) == {Prefix(s, k) \o j : k \in 2..Len(s), j \in Junk}

BrokenLockStreams == UNION {Truncations(WrittenLockTables(l)) : l \in WellFormedLists}

\* ---- the state machine ----
NotCalled == [kind |-> "NotCalled"]
NotWritten == <<>>

LeftExprs == {Identifier(IdentNew("a")), Number("1")}

Start(toks, w) ==
    /\ tokens = toks
    /\ written = w
    /\ index = 1
    /\ entry = 1
    /\ hook = "host"
    /\ result = NotCalled

Init ==
    \/ \E toks \in GeneralStreams \cup OptionStreams \cup BrokenLockStreams :
          Start(toks, NotWritten)
    \/ \E l \in WellFormedLists : Start(WrittenLockTables(l), l)

\* The host goes on only after a hook declined or succeeded.
Running == result.kind \in {"NotCalled", "None", "OkNone", "SomeOk", "OkSome"}

\* The host's own grammar consumes a token.
Advance ==
    /\ Running
    /\ index <= Len(tokens)
    /\ index' = index + 1
    /\ entry' = index + 1
    /\ hook' = "host"
    /\ result' = NotCalled
    /\ UNCHANGED <<tokens, written>>

Called(name, r) ==
    /\ Running
    /\ index <= Len(tokens) + 1
    /\ entry' = index
    /\ hook' = name
    /\ index' = r.index
    /\ result' = r.res
    /\ UNCHANGED <<tokens, written>>

ParseInfix == \E expr \in LeftExprs : Called("parse_infix", parse_infix(tokens, index, expr))

ParseStatement == Called("parse_statement", parse_statement(tokens, index))

ParsePlainOption == Called("parse_plain_option", parse_plain_option(tokens, index))

Next == Advance \/ ParseInfix \/ ParseStatement \/ ParsePlainOption

Spec == Init /\ [][Next]_vars

\* ---- properties ----
Declined == result.kind \in {"None", "OkNone"}
EntryKeyword == KeywordOf(peek_token(tokens, entry))
SkipEq(i) == IF peek_token(tokens, i).type = "Eq" THEN i + 1 ELSE i
ValueIndex == SkipEq(entry + 1)
ValueToken == peek_token(tokens, ValueIndex)
OptionCalled == hook = "parse_plain_option" /\ EntryKeyword \in OptionKeywordSet
NamesKeyword(msg, kw) == \E k \in DOMAIN msg : msg[k] = kw

\* C1: a hook that declines (parse_plain_option Ok(None), parse_statement
\* None, parse_infix None) leaves the cursor where it was on entry.
C1_DeclineConsumesNothing == Declined => index = entry

\* C1 witness: parse_statement declined at LOCK or UNLOCK not followed by TABLES.
C1_Witness ==
    /\ hook = "parse_statement"
    /\ result = None
    /\ EntryKeyword \in {"LOCK", "UNLOCK"}
    /\ entry > 1

\* The value shapes of the option table, keyword by keyword.
SpecNumberKeywords ==
    {"KEY_BLOCK_SIZE", "PACK_KEYS", "STATS_AUTO_RECALC", "STATS_PERSISTENT",
     "STATS_SAMPLE_PAGES", "DELAY_KEY_WRITE", "MAX_ROWS", "MIN_ROWS",
     "AUTOEXTEND_SIZE", "AVG_ROW_LENGTH", "CHECKSUM"}
SpecStringKeywords ==
    {"ENCRYPTION", "CONNECTION", "ENGINE_ATTRIBUTE", "PASSWORD",
     "SECONDARY_ENGINE_ATTRIBUTE"}
SpecDefaultKeywords == {"PACK_KEYS", "STATS_AUTO_RECALC", "STATS_PERSISTENT"}

FirstMatches(kw, v) ==
    \/ kw \in SpecNumberKeywords /\ v.type = "Number"
    \/ kw \in SpecDefaultKeywords /\ v.type = "Word" /\ to_uppercase(v.value) = "DEFAULT"
    \/ kw = "ROW_FORMAT" /\ v.type = "Word"
    \/ kw \in {"DATA", "INDEX"} /\ KeywordOf(v) = "DIRECTORY"
    \/ kw = "COMPRESSION" /\ v.type = "SingleQuotedString"
          /\ to_uppercase(v.value) \in {"ZLIB", "LZ4", "NONE"}
    \/ kw \in SpecStringKeywords /\ v.type = "SingleQuotedString"
    \/ kw = "START" /\ KeywordOf(v) = "TRANSACTION"
    \/ kw = "INSERT_METHOD" /\ v.type = "Word"
          /\ to_uppercase(v.value) \in {"NO", "FIRST", "LAST"}
    \/ kw = "TABLESPACE" /\ v.type \in {"Word", "SingleQuotedString"}
    \/ kw = "UNION" /\ v.type = "LParen"

IsIdentToken(t) == t.type \in {"Word", "SingleQuotedString"}

\* tokens[p..q-1] is a comma-separated list of identifiers, possibly empty.
IdentListBetween(p, q) ==
    \/ q = p
    \/ /\ (q - p) % 2 = 1
       /\ \A k \in p..(q - 1) :
             IF (k - p) % 2 = 0 THEN IsIdentToken(tokens[k]) ELSE tokens[k].type = "Comma"

ClosedListAt(p) ==
    \E q \in p..Len(tokens) : tokens[q].type = "RParen" /\ IdentListBetween(p, q)

StorageMatches(p) ==
    \/ KeywordOf(peek_token(tokens, p)) # "STORAGE"
    \/ LET t == peek_token(tokens, SkipEq(p + 1))
       IN t.type = "Word" /\ to_uppercase(t.value) \in {"DISK", "MEMORY"}

RestMatches(kw, p) ==
    IF kw \in {"DATA", "INDEX"} THEN peek_token(tokens, SkipEq(p)).type = "SingleQuotedString"
    ELSE IF kw = "TABLESPACE" THEN StorageMatches(p)
    ELSE IF kw = "UNION" THEN ClosedListAt(p)
    ELSE TRUE

ShapeMatches ==
    FirstMatches(EntryKeyword, ValueToken) /\ RestMatches(EntryKeyword, ValueIndex + 1)

\* C2 as stated: a recognized keyword followed by tokens that match none of
\* its value shapes gives an Err whose message names the keyword.
C2_MismatchErrNamesKeyword ==
    (OptionCalled /\ ~ShapeMatches) =>
        (result.kind = "Err" /\ NamesKeyword(result.msg, EntryKeyword))

\* C2 amended: such a mismatch always gives an Err, never Ok(None) or
\* Ok(Some); the message names the keyword when the token right after the
\* keyword and the optional = is the one that does not match, and is an
\* "Expected: .., found: .." message when the mismatch comes later.
C2_MismatchIsErr ==
    (OptionCalled /\ ~ShapeMatches) =>
        /\ result.kind = "Err"
        /\ IF ~FirstMatches(EntryKeyword, ValueToken)
           THEN result.msg = <<"Table option", EntryKeyword, "does not have a matching value">>
           ELSE result.msg[1] = "Expected:"

\* C2 witness: COMPRESSION with a string outside {ZLIB, LZ4, NONE} was rejected.
C2_Witness ==
    /\ OptionCalled
    /\ EntryKeyword = "COMPRESSION"
    /\ ValueToken = S("gzip")
    /\ result.kind = "Err"

\* C3: once DIV is consumed and the host's parse of the right operand fails
\* with error e, parse_infix returns Some(Err(e)).
C3_RightOperandErrorPropagates ==
    (/\ hook = "parse_infix"
     /\ EntryKeyword = "DIV"
     /\ parse_expr(tokens, entry + 1).res.kind = "Err") =>
        result = [kind |-> "SomeErr", msg |-> parse_expr(tokens, entry + 1).res.msg]

\* The entries a written LOCK TABLES statement denotes.
DenotedTable(e, k) ==
    LockTable(IdentNew(TableName(k).value),
              IF e.alias = "none" THEN NoAlias
              ELSE IF e.alias = "as_kw" THEN IdentNew("READ")
              ELSE IdentNew("a"),
              e.lock_type)
DenotedTables(l) == [k \in DOMAIN l |-> DenotedTable(l[k], k)]

\* C4: a well-formed LOCK TABLES e1, ..., en parses to LockTables with the n
\* entries in input order, each with its lock type, and with no alias where
\* none was written.
C4_WellFormedLockTables ==
    (written # NotWritten /\ hook = "parse_statement" /\ entry = 1) =>
        /\ result = [kind |-> "SomeOk", node |-> LockTables(DenotedTables(written))]
        /\ index = Len(tokens) + 1

\* C4 witness: two entries, the first without alias and with READ LOCAL, the
\* second with LOW_PRIORITY WRITE, parsed.
C4_Witness ==
    /\ hook = "parse_statement"
    /\ entry = 1
    /\ Len(written) = 2
    /\ written[1] = [alias |-> "none", lock_type |-> Read(TRUE)]
    /\ written[2].lock_type = Write(TRUE)
    /\ result.kind = "SomeOk"

\* C5: parsing the rendering of a produced option or statement node gives
\* the same node again.
C5_RoundTrip ==
    /\ (hook = "parse_plain_option" /\ result.kind = "OkSome") =>
          parse_plain_option(DisplaySqlOption(result.node), 1).res = result
    /\ (hook = "parse_statement" /\ result.kind = "SomeOk") =>
          parse_statement(DisplayStatement(result.node), 1).res = result

\* C6: PACK_KEYS, STATS_AUTO_RECALC and STATS_PERSISTENT take a number or the
\* word DEFAULT in any letter case (kept as a string value), and reject every
\* other word.
C6_NumberOrDefault ==
    (OptionCalled /\ EntryKeyword \in SpecDefaultKeywords) =>
        /\ ValueToken.type = "Number" =>
              result = OkSome(KeyValue(EntryKeyword, Number(ValueToken.value)))
        /\ ValueToken.type = "Word" =>
              IF to_uppercase(ValueToken.value) = "DEFAULT"
              THEN result = OkSome(KeyValue(EntryKeyword, SingleQuotedString(ValueToken.value)))
              ELSE result.kind = "Err"

\* C6 witness: STATS_PERSISTENT = Default was accepted.
C6_Witness ==
    /\ OptionCalled
    /\ EntryKeyword = "STATS_PERSISTENT"
    /\ ValueToken = W("Default")
    /\ result.kind = "OkSome"

\* C7: TABLESPACE name gives TableSpace{name, None} and consumes nothing past
\* the name unless STORAGE follows; after STORAGE and an optional =, DISK or
\* MEMORY in any letter case gives the storage kind and anything else an error.
C7_Tablespace ==
    (OptionCalled /\ EntryKeyword = "TABLESPACE" /\ IsIdentToken(ValueToken)) =>
        LET p == ValueIndex + 1
            t == peek_token(tokens, SkipEq(p + 1))
            kind == IF t.type = "Word" THEN to_uppercase(t.value) ELSE "NoWord"
        IN IF KeywordOf(peek_token(tokens, p)) # "STORAGE"
           THEN result = OkSome(TableSpace(ValueToken.value, "None")) /\ index = p
           ELSE IF kind = "DISK" THEN result = OkSome(TableSpace(ValueToken.value, "Disk"))
           ELSE IF kind = "MEMORY" THEN result = OkSome(TableSpace(ValueToken.value, "Memory"))
           ELSE result.kind = "Err"

\* C7 witness: TABLESPACE name STORAGE = Memory was parsed.
C7_Witness ==
    /\ OptionCalled
    /\ EntryKeyword = "TABLESPACE"
    /\ peek_token(tokens, ValueIndex + 2).type = "Eq"
    /\ result.kind = "OkSome"
    /\ result.node.storage = "Memory"

\* C8: at UNLOCK TABLES parse_statement consumes the two keywords and nothing
\* else and returns Some(Ok(UnlockTables)), whatever follows.
C8_UnlockTables ==
    (/\ hook = "parse_statement"
     /\ EntryKeyword = "UNLOCK"
     /\ KeywordOf(peek_token(tokens, entry + 1)) = "TABLES") =>
        /\ result = [kind |-> "SomeOk", node |-> UnlockTables]
        /\ index = entry + 2

\* C8 witness: UNLOCK TABLES was parsed with a token behind it.
C8_Witness ==
    /\ hook = "parse_statement"
    /\ result.kind = "SomeOk"
    /\ result.node = UnlockTables
    /\ index <= Len(tokens)

UnionCalled == OptionCalled /\ EntryKeyword = "UNION" /\ ValueToken.type = "LParen"

\* C9: UNION ( .. gives Union{tables} only when the list is closed by a right
\* parenthesis, which is consumed, and tables are the listed identifiers in
\* input order; without the right parenthesis the result is an error.
C9_Union ==
    UnionCalled =>
        /\ result.kind \in {"OkSome", "Err"}
        /\ result.kind = "OkSome" =>
              /\ result.node.option = "Union"
              /\ SubSeq(tokens, ValueIndex + 1, index - 1)
                    = display_comma_separated(
                          [k \in DOMAIN result.node.tables |->
                              DisplayIdent(result.node.tables[k])], 1) \o <<RParen>>
        /\ (\A q \in (ValueIndex + 1)..Len(tokens) : tokens[q].type # "RParen") =>
              result.kind = "Err"

\* C9 witness: UNION (x, y) with two identifiers was parsed.
C9_Witness ==
    /\ UnionCalled
    /\ result.kind = "OkSome"
    /\ Len(result.node.tables) = 2

LockCalled ==
    /\ hook = "parse_statement"
    /\ EntryKeyword = "LOCK"
    /\ KeywordOf(peek_token(tokens, entry + 1)) = "TABLES"

\* The ways an entry can be written: the alias with or without AS.
EntryWritten(t, as) ==
    DisplayIdent(t.table)
    \o (IF t.alias = NoAlias THEN <<>>
        ELSE IF as THEN <<W("AS")>> \o DisplayIdent(t.alias)
        ELSE DisplayIdent(t.alias))
    \o DisplayLockTableType(t.lock_type)

\* C10: after LOCK TABLES the result is LockTables only for a non-empty list
\* of complete entries, all of them consumed and not followed by a comma;
\* anything else is Some(Err).
C10_NoPartialLockTables ==
    LockCalled =>
        /\ result.kind \in {"SomeOk", "SomeErr"}
        /\ peek_token(tokens, entry + 2).type = "EOF" => result.kind = "SomeErr"
        /\ result.kind = "SomeOk" =>
              /\ Len(result.node.tables) >= 1
              /\ peek_token(tokens, index).type # "Comma"
              /\ \E as \in [DOMAIN result.node.tables -> BOOLEAN] :
                    SubSeq(tokens, entry + 2, index - 1)
                       = display_comma_separated(
                             [k \in DOMAIN result.node.tables |->
                                 EntryWritten(result.node.tables[k], as[k])], 1)

\* C10 witness: the first entry was complete and the second was not.
C10_Witness ==
    /\ LockCalled
    /\ result.kind = "SomeErr"
    /\ \E k \in (entry + 2)..Len(tokens) : tokens[k].type = "Comma"
    /\ parse_lock_table(tokens, entry + 2).res.kind = "Ok"

====
